---- MODULE Spec2Model ----
(***************************************************************************)
(* A model of the ipproxy packet proxy: the carrier reader                  *)
(* (readDownstreamPackets), the demultiplexer with its inline reaper        *)
(* (copyToUpstream, onTCP, reapTCP), the TCP destinations with their        *)
(* acceptors and connections (tcpDest.accept, baseConn), the downstream     *)
(* fan-in (copyFromUpstream) with the ICMP drainer, and the three-signal    *)
(* closeable that every long-lived object embeds.                           *)
(*                                                                         *)
(* The closeable's methods, closeTCP, closeUDP and onUDP are not among the  *)
(* source files; they are modelled from the design document and marked so. *)
(***************************************************************************)
EXTENDS Integers, Sequences, FiniteSets, TLC

----------------------------------------------------------------------------
\* Bounds of the model
NumDsts == 1        \* destination addresses
NumRemotes == 1     \* downstream client addresses
MaxDests == 2       \* tcpDest objects ever allocated
MaxPackets == 2     \* frames the carrier delivers
PktInCap == 1       \* modelled depth of the pktIn channel (1000 in New)
MaxNow == 2         \* clock values
IdleTicks == 1       \* opts.IdleTimeout in clock units
\* Longest buffer one upstream read returns, and the byte values in it
MaxLen == 2
NumBytes == 2
\* Most retries of one writeToDownstream call that the model follows
MaxI == 4
\* The longest back-off sleep, in milliseconds (30 in the program)
maxWriteWait == 2
NumClosers == 1     \* callers of Proxy.Close from outside

\* Program constants
IPProtocolICMP == 1
IPProtocolTCP == 6
IPProtocolUDP == 17
UnknownProto == 99  \* any protocol number other than the three above

Dsts == 1..NumDsts
Remotes == 1..NumRemotes
DestIds == 1..MaxDests
Closers == 1..NumClosers
Nil == 0

Protos == {IPProtocolICMP, IPProtocolTCP, IPProtocolUDP, UnknownProto}
\* ipPacket: the protocol and the four-tuple, reduced to src and dst
Packets == [ipProto : Protos, src : Remotes, dst : Dsts]
NoPkt == [ipProto |-> 0, src |-> 0, dst |-> 0]   \* no packet in hand
\* The frames the carrier delivers: per protocol, the addresses that matter
\* to the demultiplexer (the destination for TCP, one four-tuple for UDP)
Frames == {pkt \in Packets : pkt.ipProto # IPProtocolTCP => pkt.src = 1 /\ pkt.dst = 1}
Flows == Remotes \X Dsts

\* The closeable objects: the proxy, each tcpDest, each accepted connection
P == <<"proxy", 0, 0>>
D(id) == <<"dest", id, 0>>
C(id, r) == <<"conn", id, r>>
ConnKeys == DestIds \X Remotes
Objs == {P} \cup {D(id) : id \in DestIds} \cup {C(k[1], k[2]) : k \in ConnKeys}

VARIABLES
    \* proxy counters and maps
    acceptedPackets, rejectedPackets,
    pktIn,            \* chan ipPacket
    tcpConnTrack,     \* map[addr]*tcpDest: Dsts -> DestIds or Nil
    udpConns,         \* map[fourtuple]*udpConn: Flows -> "none" | "open" | "closed"
    \* closeable: TRUE once the channel has been closed
    closeCh, readyToFinalizeCh, closedCh,
    \* carrier reader
    readerPc, readerErr, readerPkt, nRead,
    \* demux task and its reaper
    demuxPc, demuxPkt, demuxDest, wgDone,
    reapTodo, reapA, reapN, reapSeen,
    \* the steps each object's finalizer has run, in order
    finLog,
    \* tcpDest objects
    nextDest, dSt, dAddr, dLast, conns, pending, notifyCh,
    accPc, accRem,
    \* connections
    cSt, cLast, pumpUp, pumpDown,
    \* fan-in and the ICMP drainer
    icmpC, outSeq, drainPc, drainPkt, fanPc, fanPkt, taken, written, fanErr,
    lateTake,         \* history: a packet was taken after p.closeCh had fired
    \* outside callers of Close, and the clock
    userPc, now,
    \* one connection's pumps, statement by statement (PumpSpec)
    upPc, upT,        \* copyToUpstream and the clock value its markActive read
    dnPc, dnT,        \* copyFromUpstream and the clock value its markActive read
    connNotify,       \* the connection's notifyCh holds a wake-up
    wB, wOrig, wSent, \* writeToDownstream: b, the b it was called with, the
                      \* bytes the endpoint has accepted
    wI,               \* writeToDownstream: the loop counter i
    wRet,             \* writeToDownstream: what the last call returned
    wLast,            \* writeToDownstream: what the last ep.Write answered
    waitTime,         \* writeToDownstream: the last back-off sleep, in ms
    wTotal,           \* the sum of the call's back-off sleeps, in ms
    wSince            \* ep.Write calls of this call since one last accepted bytes

proxyVars == <<acceptedPackets, rejectedPackets, pktIn, tcpConnTrack, udpConns>>
closeVars == <<closeCh, readyToFinalizeCh, closedCh>>
readerVars == <<readerPc, readerErr, readerPkt, nRead>>
demuxVars == <<demuxPc, demuxPkt, demuxDest, wgDone>>
reapVars == <<reapTodo, reapA, reapN, reapSeen>>
destVars == <<nextDest, dSt, dAddr, dLast, conns, pending, notifyCh>>
accVars == <<accPc, accRem>>
connVars == <<cSt, cLast, pumpUp, pumpDown>>
fanVars == <<icmpC, outSeq, drainPc, drainPkt, fanPc, fanPkt, taken, written, fanErr,
            lateTake>>
sleepVars == <<wLast, waitTime, wTotal, wSince>>
pumpVars == <<upPc, upT, dnPc, dnT, connNotify, wB, wOrig, wSent, wI, wRet, sleepVars>>
vars_but_close == <<proxyVars, readerVars, demuxVars, reapVars, destVars, accVars,
                    connVars, fanVars, userPc, now, pumpVars>>
vars == <<proxyVars, closeVars, readerVars, demuxVars, reapVars, destVars,
          accVars, connVars, fanVars, userPc, now, pumpVars, finLog>>

----------------------------------------------------------------------------
\* The connection PumpSpec follows: the first flow of the first destination
K1 == <<1, 1>>

\* State after New and the start of Serve; with accepted, the first
\* destination has been started and has accepted its first flow
InitState(accepted) ==
    /\ acceptedPackets = 0 /\ rejectedPackets = 0
    /\ pktIn = <<>>
    /\ tcpConnTrack = [a \in Dsts |-> IF accepted /\ a = 1 THEN 1 ELSE Nil]
    /\ udpConns = [f \in Flows |-> "none"]
    /\ closeCh = [o \in Objs |-> FALSE]
    /\ readyToFinalizeCh = [o \in Objs |-> FALSE]
    /\ closedCh = [o \in Objs |-> FALSE]
    /\ readerPc = "read" /\ readerErr = "none" /\ nRead = 0
    /\ readerPkt = NoPkt
    /\ demuxPc = "select" /\ demuxDest = Nil /\ wgDone = FALSE
    /\ demuxPkt = NoPkt
    /\ reapTodo = {} /\ reapA = Nil /\ reapN = 0 /\ reapSeen = {}
    /\ finLog = [o \in Objs |-> <<>>]
    /\ nextDest = IF accepted THEN 1 ELSE 0
    /\ dSt = [id \in DestIds |-> IF accepted /\ id = 1 THEN "started" ELSE "none"]
    /\ dAddr = [id \in DestIds |-> 1]   \* read only once dSt[id] is "started"
    /\ dLast = [id \in DestIds |-> 0]
    /\ conns = [id \in DestIds |-> IF accepted /\ id = 1 THEN {1} ELSE {}]
    /\ pending = [id \in DestIds |-> {}]
    /\ notifyCh = [id \in DestIds |-> FALSE]
    /\ accPc = [id \in DestIds |-> IF accepted /\ id = 1 THEN "wait" ELSE "none"]
    /\ accRem = [id \in DestIds |-> Nil]
    /\ cSt = [k \in ConnKeys |-> IF accepted /\ k = K1 THEN "open" ELSE "none"]
    /\ cLast = [k \in ConnKeys |-> 0]
    /\ pumpUp = [k \in ConnKeys |-> "none"]
    /\ pumpDown = [k \in ConnKeys |-> "none"]
    /\ icmpC = <<>> /\ outSeq = 0
    /\ drainPc = "recv" /\ drainPkt = 0
    /\ fanPc = "select" /\ fanPkt = 0 /\ taken = <<>> /\ written = <<>>
    /\ fanErr = FALSE /\ lateTake = FALSE
    /\ userPc = [u \in Closers |-> "idle"]
    /\ now = 0
    /\ upPc = IF accepted THEN "read" ELSE "none"
    /\ dnPc = IF accepted THEN "read" ELSE "none"
    /\ upT = 0 /\ dnT = 0
    /\ connNotify = FALSE
    /\ wB = <<>> /\ wOrig = <<>> /\ wSent = <<>> /\ wI = 0 /\ wRet = "none"
    /\ wLast = "none" /\ waitTime = 0 /\ wTotal = 0 /\ wSince = 0

Init == InitState(FALSE)


----------------------------------------------------------------------------
\* closeable

\* close(c.closeCh) for every object of S
FireClose(S) == [o \in Objs |-> closeCh[o] \/ o \in S]
\* close(c.readyToFinalizeCh) for every object of S
FireReady(S) == [o \in Objs |-> readyToFinalizeCh[o] \/ o \in S]
\* close(c.closedCh) for every object of S
FireClosed(S) == [o \in Objs |-> closedCh[o] \/ o \in S]

\* The finalizer may run: close was requested and the object is ready
CanFinalize(o) == closeCh[o] /\ readyToFinalizeCh[o] /\ ~closedCh[o]

Live(o) == ~closedCh[o]

----------------------------------------------------------------------------
\* Carrier reader: readDownstreamPackets

\* One p.downstream.Read and parseIPPacket
ReadDownstream(frames) ==
    /\ readerPc = "read"
    /\ \/ /\ readerErr' = "EOF" /\ readerPc' = "wgWait"
          /\ UNCHANGED <<readerPkt, nRead, rejectedPackets>>
       \/ /\ readerErr' = "error" /\ readerPc' = "wgWait"
          /\ UNCHANGED <<readerPkt, nRead, rejectedPackets>>
       \/ /\ nRead < MaxPackets /\ nRead' = nRead + 1
          /\ rejectedPackets' = rejectedPackets + 1      \* unparseable frame
          /\ UNCHANGED <<readerPc, readerErr, readerPkt>>
       \/ /\ nRead < MaxPackets /\ nRead' = nRead + 1
          /\ \E pkt \in frames : readerPkt' = pkt
          /\ readerPc' = "send"
          /\ UNCHANGED <<readerErr, rejectedPackets>>
    /\ UNCHANGED <<pumpVars, finLog, acceptedPackets, pktIn, tcpConnTrack, udpConns, closeVars,
                   demuxVars, reapVars, destVars, accVars, connVars, fanVars,
                   userPc, now>>

\* p.pktIn <- pkt, which blocks while the channel is full
SendPktIn ==
    /\ readerPc = "send"
    /\ Len(pktIn) < PktInCap
    /\ pktIn' = Append(pktIn, readerPkt)
    /\ readerPkt' = NoPkt
    /\ readerPc' = "read"
    /\ UNCHANGED <<pumpVars, finLog, acceptedPackets, rejectedPackets, tcpConnTrack, udpConns,
                   closeVars, readerErr, nRead, demuxVars, reapVars,
                   destVars, accVars, connVars, fanVars, userPc, now>>

\* defer wg.Wait(): wait for copyToUpstream
ReaderWgWait ==
    /\ readerPc = "wgWait"
    /\ wgDone
    /\ readerPc' = "closeNow"
    /\ UNCHANGED <<pumpVars, finLog, proxyVars, closeVars, readerErr, readerPkt, nRead, demuxVars,
                   reapVars, destVars, accVars, connVars, fanVars, userPc, now>>

\* defer p.closeNow()
ReaderCloseNow ==
    /\ readerPc = "closeNow"
    /\ closeCh' = FireClose({P})
    /\ readyToFinalizeCh' = FireReady({P})
    /\ readerPc' = "closing"
    /\ UNCHANGED <<pumpVars, finLog, proxyVars, closedCh, readerErr, readerPkt, nRead, demuxVars,
                   reapVars, destVars, accVars, connVars, fanVars, userPc, now>>

\* readDownstreamPackets returns, and Serve with it
ReaderReturn ==
    /\ readerPc = "closing"
    /\ closedCh[P]
    /\ readerPc' = "done"
    /\ UNCHANGED <<pumpVars, finLog, proxyVars, closeVars, readerErr, readerPkt, nRead, demuxVars,
                   reapVars, destVars, accVars, connVars, fanVars, userPc, now>>

----------------------------------------------------------------------------
\* Demux task: copyToUpstream

\* onUDP: look the four-tuple up, dial and create the flow when absent, inject
OnUDP(pkt, dialOk) ==
    LET f == <<pkt.src, pkt.dst>> IN
    IF udpConns[f] = "none" /\ dialOk
    THEN [udpConns EXCEPT ![f] = "open"]
    ELSE udpConns

\* A default branch that also counts the packet as accepted
RejectUnknownCountsAccepted ==
    /\ rejectedPackets' = rejectedPackets + 1
    /\ acceptedPackets' = acceptedPackets + 1
    /\ UNCHANGED <<pumpVars, finLog, udpConns, icmpC, outSeq>>
    /\ demuxPc' = "select"

\* The default branch of the protocol switch
RejectUnknown ==
    /\ rejectedPackets' = rejectedPackets + 1
    /\ UNCHANGED <<pumpVars, finLog, acceptedPackets, udpConns, icmpC, outSeq>>
    /\ demuxPc' = "select"

\* case pkt := <-p.pktIn
DemuxPacket ==
    /\ demuxPc = "select"
    /\ pktIn # <<>>
    /\ LET pkt == Head(pktIn) IN
       /\ pktIn' = Tail(pktIn)
       /\ demuxPkt' = IF pkt.ipProto \in {IPProtocolUDP, IPProtocolICMP} THEN NoPkt ELSE pkt
       /\ \/ /\ pkt.ipProto = IPProtocolTCP
             /\ acceptedPackets' = acceptedPackets + 1
             /\ demuxPc' = "onTCP"
             /\ UNCHANGED <<rejectedPackets, udpConns, icmpC, outSeq>>
          \/ /\ pkt.ipProto = IPProtocolUDP
             /\ acceptedPackets' = acceptedPackets + 1
             /\ \E dialOk \in BOOLEAN : udpConns' = OnUDP(pkt, dialOk)
             /\ demuxPc' = "select"
             /\ UNCHANGED <<rejectedPackets, icmpC, outSeq>>
          \/ /\ pkt.ipProto = IPProtocolICMP
             /\ acceptedPackets' = acceptedPackets + 1
             \* InjectInbound: the stack may answer on the channel endpoint
             /\ \/ UNCHANGED <<icmpC, outSeq>>
                \/ /\ outSeq' = outSeq + 1
                   /\ icmpC' = Append(icmpC, outSeq + 1)
             /\ demuxPc' = "select"
             /\ UNCHANGED <<rejectedPackets, udpConns>>
          \/ /\ pkt.ipProto \notin {IPProtocolTCP, IPProtocolUDP, IPProtocolICMP}
             /\ RejectUnknown
    /\ UNCHANGED <<pumpVars, finLog, tcpConnTrack, closeVars, readerVars, demuxDest, wgDone,
                   reapVars, destVars, accVars, connVars, drainPc, drainPkt,
                   fanPc, fanPkt, taken, written, fanErr, lateTake, userPc, now>>

\* case <-reapTicker.C: p.reapTCP() is entered
DemuxTick ==
    /\ demuxPc = "select"
    /\ demuxPc' = "reapSleep"
    /\ UNCHANGED <<pumpVars, finLog, proxyVars, closeVars, readerVars, demuxPkt, demuxDest, wgDone,
                   reapVars, destVars, accVars, connVars, fanVars, userPc, now>>

\* case <-p.closeCh: return, and the deferred calls start
DemuxClose ==
    /\ demuxPc = "select"
    /\ closeCh[P]
    /\ demuxPc' = "closeUDP"
    /\ UNCHANGED <<pumpVars, finLog, proxyVars, closeVars, readerVars, demuxPkt, demuxDest, wgDone,
                   reapVars, destVars, accVars, connVars, fanVars, userPc, now>>

----------------------------------------------------------------------------
\* onTCP and startTCPDest

\* timeSinceLastActive() > p.opts.IdleTimeout
Idle(last) == now - last > IdleTicks

\* A lookup that misses an installed destination
LookupDestMisses(a) == Nil

\* p.tcpConnTrack[dstAddr]
LookupDest(a) == tcpConnTrack[a]

\* dest := p.tcpConnTrack[dstAddr], under tcpConnTrackMx
OnTCPLookup ==
    /\ demuxPc = "onTCP"
    /\ demuxDest' = LookupDest(demuxPkt.dst)
    /\ demuxPc' = IF LookupDest(demuxPkt.dst) = Nil THEN "startTCPDest" ELSE "inject"
    /\ UNCHANGED <<pumpVars, finLog, proxyVars, closeVars, readerVars, demuxPkt, wgDone, reapVars,
                   destVars, accVars, connVars, fanVars, userPc, now>>

\* startTCPDest: the ways it ends
\*   "nic"    CreateNIC or AddAddress fails, before the tcpDest is allocated
\*   "init"   dest.init fails: the tcpDest is dropped as it is
\*   "listen" Listen fails: dest.finalize() runs
\*   "ok"     go dest.accept()
\* The finalizer newOrigin hands to newBaseConn: s.Close(), the caller's
\* finalizer if there is one, channelEndpoint.Drain()
OriginFinalizer(hasCaller) ==
    <<"stack.Close">> \o (IF hasCaller THEN <<"finalizer">> ELSE <<>>) \o <<"Drain">>

\* conn.finalizer of newBaseConn: the finalizer handed in, upstream.Close()
\* if there is an upstream, wq.EventUnregister, ep.Close() if there is an
\* endpoint
ConnFinalizerUpstreamFirst(supplied, hasUpstream, hasEp) ==
    (IF hasUpstream THEN <<"upstream.Close">> ELSE <<>>) \o supplied
        \o <<"EventUnregister">> \o (IF hasEp THEN <<"ep.Close">> ELSE <<>>)

ConnFinalizer(supplied, hasUpstream, hasEp) ==
    supplied \o (IF hasUpstream THEN <<"upstream.Close">> ELSE <<>>)
        \o <<"EventUnregister">> \o (IF hasEp THEN <<"ep.Close">> ELSE <<>>)

StartOutcomes == {"nic", "init", "listen", "ok"}

StartTCPDest ==
    /\ demuxPc = "startTCPDest"
    /\ \E outcome \in StartOutcomes :
         IF outcome = "nic"
         THEN /\ demuxPc' = "select"
              /\ demuxPkt' = NoPkt
              /\ UNCHANGED <<closedCh, finLog, demuxDest, destVars, accPc>>
         ELSE /\ nextDest < MaxDests
              /\ LET id == nextDest + 1 IN
                 /\ nextDest' = id
                 /\ dAddr' = [dAddr EXCEPT ![id] = demuxPkt.dst]
                 /\ dLast' = [dLast EXCEPT ![id] = now]          \* dest.markActive()
                 /\ dSt' = [dSt EXCEPT ![id] =
                              CASE outcome = "init" -> "initFailed"
                                [] outcome = "listen" -> "listenFailed"
                                [] OTHER -> "started"]
                 /\ closedCh' = IF outcome = "listen" THEN FireClosed({D(id)}) ELSE closedCh
                 /\ finLog' = IF outcome = "listen"                 \* dest.finalize()
                                THEN [finLog EXCEPT ![D(id)] = ConnFinalizer(<<>>, FALSE, TRUE)]
                                ELSE finLog
                 /\ accPc' = IF outcome = "ok" THEN [accPc EXCEPT ![id] = "accept"] ELSE accPc
                 /\ demuxDest' = IF outcome = "ok" THEN id ELSE demuxDest
                 /\ demuxPc' = IF outcome = "ok" THEN "insert" ELSE "select"
                 /\ demuxPkt' = IF outcome = "ok" THEN demuxPkt ELSE NoPkt
                 /\ UNCHANGED <<conns, pending, notifyCh>>
    /\ UNCHANGED <<pumpVars, proxyVars, closeCh, readyToFinalizeCh, readerVars,
                   wgDone, reapVars, accRem, connVars, fanVars, userPc, now>>

\* p.tcpConnTrack[dstAddr] = dest, under tcpConnTrackMx
OnTCPInsert ==
    /\ demuxPc = "insert"
    /\ tcpConnTrack' = [tcpConnTrack EXCEPT ![demuxPkt.dst] = demuxDest]
    /\ demuxPc' = "inject"
    /\ UNCHANGED <<pumpVars, finLog, acceptedPackets, rejectedPackets, pktIn, udpConns, closeVars,
                   readerVars, demuxPkt, demuxDest, wgDone, reapVars, destVars,
                   accVars, connVars, fanVars, userPc, now>>

\* A new flow from r may reach the listening endpoint of dest id
CanConnect(id, r) ==
    /\ ~closedCh[D(id)]
    /\ cSt[<<id, r>>] = "none"
    /\ r \notin pending[id]
    /\ ~(accPc[id] \in {"dial", "insert"} /\ accRem[id] = r)

\* p.channelEndpoint.Inject: the stack takes the packet; a completed
\* handshake queues the flow on the listening endpoint and pokes the notifier
OnTCPInject ==
    /\ demuxPc = "inject"
    /\ \/ UNCHANGED <<pending, notifyCh>>
       \/ /\ CanConnect(demuxDest, demuxPkt.src)
          /\ pending' = [pending EXCEPT ![demuxDest] = @ \cup {demuxPkt.src}]
          /\ notifyCh' = [notifyCh EXCEPT ![demuxDest] = TRUE]
    /\ demuxPc' = "select"
    /\ demuxPkt' = NoPkt
    /\ demuxDest' = Nil
    /\ UNCHANGED <<pumpVars, finLog, proxyVars, closeVars, readerVars, wgDone,
                   reapVars, nextDest, dSt, dAddr, dLast, conns, accVars,
                   connVars, fanVars, userPc, now>>

----------------------------------------------------------------------------
\* tcpDest.accept

\* dest.ep.Accept()
Accept(id) ==
    /\ accPc[id] = "accept"
    /\ IF closedCh[D(id)]
       THEN \* the endpoint is closed: Accept() failed, return
            /\ accPc' = [accPc EXCEPT ![id] = "exited"]
            /\ UNCHANGED <<accRem, pending>>
       ELSE IF pending[id] = {}
       THEN \* ErrWouldBlock
            /\ accPc' = [accPc EXCEPT ![id] = "wait"]
            /\ UNCHANGED <<accRem, pending>>
       ELSE \E r \in pending[id] :
            /\ pending' = [pending EXCEPT ![id] = @ \ {r}]
            /\ accRem' = [accRem EXCEPT ![id] = r]
            /\ accPc' = [accPc EXCEPT ![id] = "dial"]
    /\ UNCHANGED <<pumpVars, finLog, proxyVars, closeVars, readerVars, demuxVars, reapVars, nextDest,
                   dSt, dAddr, dLast, conns, notifyCh, connVars, fanVars, userPc, now>>

\* <-dest.notifyCh
AcceptWait(id) ==
    /\ accPc[id] = "wait"
    /\ notifyCh[id]
    /\ notifyCh' = [notifyCh EXCEPT ![id] = FALSE]
    /\ accPc' = [accPc EXCEPT ![id] = "accept"]
    /\ UNCHANGED <<pumpVars, finLog, proxyVars, closeVars, readerVars, demuxVars, reapVars, nextDest,
                   dSt, dAddr, dLast, conns, pending, accRem, connVars, fanVars,
                   userPc, now>>

\* What the acceptor does when DialTCP fails
AcceptorAfterDialError == "exited"

\* DialTCP, then newBaseConnWithQueue and the two pumps
AcceptDial(id) ==
    /\ accPc[id] = "dial"
    /\ \/ \* dialErr != nil: log and return
          /\ accPc' = [accPc EXCEPT ![id] = AcceptorAfterDialError]
          /\ accRem' = [accRem EXCEPT ![id] = Nil]
          /\ UNCHANGED connVars
       \/ LET k == <<id, accRem[id]>> IN
          /\ cSt' = [cSt EXCEPT ![k] = "open"]
          /\ cLast' = [cLast EXCEPT ![k] = now]                  \* conn.markActive()
          /\ pumpUp' = [pumpUp EXCEPT ![k] = "run"]
          /\ pumpDown' = [pumpDown EXCEPT ![k] = "run"]
          /\ accPc' = [accPc EXCEPT ![id] = "insert"]
          /\ UNCHANGED accRem
    /\ UNCHANGED <<pumpVars, finLog, proxyVars, closeVars, readerVars, demuxVars, reapVars, destVars,
                   fanVars, userPc, now>>

\* dest.conns[downstreamAddr] = &tcpConn, under connsMx
AcceptInsert(id) ==
    /\ accPc[id] = "insert"
    /\ conns' = [conns EXCEPT ![id] = @ \cup {accRem[id]}]
    /\ accPc' = [accPc EXCEPT ![id] = "accept"]
    /\ accRem' = [accRem EXCEPT ![id] = Nil]
    /\ UNCHANGED <<pumpVars, finLog, proxyVars, closeVars, readerVars, demuxVars, reapVars, nextDest,
                   dSt, dAddr, dLast, pending, notifyCh, connVars, fanVars,
                   userPc, now>>

----------------------------------------------------------------------------
\* baseConn: the two pumps of an accepted connection and its finalizer

\* copyToUpstream moved bytes: conn.markActive()
PumpUpCopy(k) ==
    /\ pumpUp[k] = "run"
    /\ ~closedCh[C(k[1], k[2])]
    /\ cLast' = [cLast EXCEPT ![k] = now]
    /\ UNCHANGED <<pumpVars, finLog, proxyVars, closeVars, readerVars, demuxVars, reapVars, destVars,
                   accVars, cSt, pumpUp, pumpDown, fanVars, userPc, now>>

\* copyToUpstream returns (closeCh seen, the endpoint closed for receive, a
\* read or an upstream write error): defer conn.closeNow()
PumpUpExit(k) ==
    /\ pumpUp[k] = "run"
    /\ closeCh' = FireClose({C(k[1], k[2])})
    /\ readyToFinalizeCh' = FireReady({C(k[1], k[2])})
    /\ pumpUp' = [pumpUp EXCEPT ![k] = "exited"]
    /\ UNCHANGED <<pumpVars, finLog, proxyVars, closedCh, readerVars, demuxVars, reapVars, destVars,
                   accVars, cSt, cLast, pumpDown, fanVars, userPc, now>>

\* copyFromUpstream moved bytes: conn.markActive()
PumpDownCopy(k) ==
    /\ pumpDown[k] = "run"
    /\ ~closedCh[C(k[1], k[2])]
    /\ cLast' = [cLast EXCEPT ![k] = now]
    /\ UNCHANGED <<pumpVars, finLog, proxyVars, closeVars, readerVars, demuxVars, reapVars, destVars,
                   accVars, cSt, pumpUp, pumpDown, fanVars, userPc, now>>

\* copyFromUpstream returns (upstream read error or EOF, endpoint write
\* error): defer conn.Close()
PumpDownExit(k) ==
    /\ pumpDown[k] = "run"
    /\ closeCh' = FireClose({C(k[1], k[2])})
    /\ pumpDown' = [pumpDown EXCEPT ![k] = "closing"]
    /\ UNCHANGED <<pumpVars, finLog, proxyVars, readyToFinalizeCh, closedCh, readerVars, demuxVars,
                   reapVars, destVars, accVars, cSt, cLast, pumpUp, fanVars,
                   userPc, now>>

\* conn.Close() returns in copyFromUpstream
PumpDownDone(k) ==
    /\ pumpDown[k] = "closing"
    /\ closedCh[C(k[1], k[2])]
    /\ pumpDown' = [pumpDown EXCEPT ![k] = "exited"]
    /\ UNCHANGED <<pumpVars, finLog, proxyVars, closeVars, readerVars, demuxVars, reapVars, destVars,
                   accVars, cSt, cLast, pumpUp, fanVars, userPc, now>>

\* dest.removeConn(addr): delete(dest.conns, addr)
RemoveConn(cs, id, r) == [cs EXCEPT ![id] = @ \ {r}]

\* The connection's finalizer (removeConn, upstream.Close, EventUnregister,
\* ep.Close), then close(closedCh)
FinalizeConn(k) ==
    /\ cSt[k] = "open"
    /\ CanFinalize(C(k[1], k[2]))
    /\ conns' = RemoveConn(conns, k[1], k[2])
    /\ cSt' = [cSt EXCEPT ![k] = "closed"]
    /\ closedCh' = FireClosed({C(k[1], k[2])})
    /\ finLog' = [finLog EXCEPT ![C(k[1], k[2])] =
                     @ \o ConnFinalizer(<<"finalizer">>, TRUE, TRUE)]
    /\ UNCHANGED <<pumpVars, proxyVars, closeCh, readyToFinalizeCh, readerVars, demuxVars,
                   reapVars, nextDest, dSt, dAddr, dLast, pending, notifyCh,
                   accVars, cLast, pumpUp, pumpDown, fanVars, userPc, now>>

\* The finalizers a destination can have been built with: the tcpDest of
\* startTCPDest (no finalizer handed in, no upstream), or an origin of
\* newOrigin, with or without a caller's finalizer and an upstream
DestFinalizers ==
    {ConnFinalizer(<<>>, FALSE, TRUE)} \cup
    {ConnFinalizer(OriginFinalizer(c), u, TRUE) : c \in BOOLEAN, u \in BOOLEAN}

\* The tcpDest's finalizer (EventUnregister, ep.Close), then close(closedCh)
FinalizeDest(id) ==
    /\ dSt[id] = "started"
    /\ CanFinalize(D(id))
    /\ pending' = [pending EXCEPT ![id] = {}]
    /\ closedCh' = FireClosed({D(id)})
    /\ finLog' = [finLog EXCEPT ![D(id)] = @ \o ConnFinalizer(<<>>, FALSE, TRUE)]
    /\ UNCHANGED <<pumpVars, proxyVars, closeCh, readyToFinalizeCh, readerVars, demuxVars,
                   reapVars, nextDest, dSt, dAddr, dLast, conns, notifyCh,
                   accVars, connVars, fanVars, userPc, now>>

\* The proxy's finalizer (return nil), then close(closedCh)
FinalizeProxy ==
    /\ CanFinalize(P)
    /\ closedCh' = FireClosed({P})
    /\ UNCHANGED <<pumpVars, finLog, proxyVars, closeCh, readyToFinalizeCh, readerVars, demuxVars,
                   reapVars, destVars, accVars, connVars, fanVars, userPc, now>>

----------------------------------------------------------------------------
\* reapTCP, entered from the demux task at a tick

\* time.Sleep(1 * time.Second)
ReapSleep ==
    /\ demuxPc = "reapSleep"
    /\ demuxPc' = "reapSnapshot"
    /\ UNCHANGED <<pumpVars, finLog, proxyVars, closeVars, readerVars, demuxPkt, demuxDest, wgDone,
                   reapVars, destVars, accVars, connVars, fanVars, userPc, now>>

\* dests := copy of p.tcpConnTrack, under tcpConnTrackMx
ReapSnapshot ==
    /\ demuxPc = "reapSnapshot"
    /\ reapTodo' = {tcpConnTrack[a] : a \in {b \in Dsts : tcpConnTrack[b] # Nil}}
    /\ demuxPc' = "reapNext"
    /\ UNCHANGED <<pumpVars, finLog, proxyVars, closeVars, readerVars, demuxPkt, demuxDest, wgDone,
                   reapA, reapN, reapSeen, destVars, accVars, connVars, fanVars, userPc, now>>

\* The next destination of the snapshot: conns := copy of dest.conns, under
\* connsMx; with none left, the outer for loop goes round
ReapNext ==
    /\ demuxPc = "reapNext"
    /\ IF reapTodo = {}
       THEN /\ demuxPc' = "reapSleep"
            /\ reapA' = Nil /\ reapN' = 0
            /\ UNCHANGED reapTodo
       ELSE \E id \in reapTodo :
            /\ reapTodo' = reapTodo \ {id}
            /\ reapA' = id
            /\ reapN' = Cardinality(conns[id])
            /\ demuxPc' = "reapCheck"
    /\ UNCHANGED <<pumpVars, finLog, proxyVars, closeVars, readerVars, demuxPkt, demuxDest, wgDone,
                   reapSeen, destVars, accVars, connVars, fanVars, userPc, now>>

\* The connections among seen whose close the reaper starts: go conn.Close()
ReapIdleConns(id, seen) == {C(id, r) : r \in {q \in seen : Idle(cLast[<<id, q>>])}}

\* if len(conns) > 0: the range over dest.conns begins, connsMx not held;
\* else if dest.timeSinceLastActive() > IdleTimeout
ReapCheck ==
    /\ demuxPc = "reapCheck"
    /\ IF reapN > 0
       THEN /\ reapSeen' = conns[reapA]
            /\ demuxPc' = "reapRange"
       ELSE /\ demuxPc' = IF Idle(dLast[reapA]) THEN "reapDelete" ELSE "reapNext"
            /\ UNCHANGED reapSeen
    /\ UNCHANGED <<pumpVars, finLog, proxyVars, closeVars, readerVars, demuxPkt,
                   demuxDest, wgDone, reapTodo, reapA, reapN, destVars, accVars,
                   connVars, fanVars, userPc, now>>

\* What an unlocked range over dest.conns can yield when the map went from
\* before to after under it: every entry present throughout, and any of the
\* entries inserted or deleted meanwhile
RangeYields(before, after) ==
    {S \in SUBSET (before \cup after) : (before \cap after) \subseteq S}

\* for _, conn := range dest.conns {...} ends. If the map was written during
\* the range, the range yields one of RangeYields, or the runtime stops the
\* program with "concurrent map iteration and map write"; the model stops
\* the demux task there.
ReapRange ==
    /\ demuxPc = "reapRange"
    /\ \/ \E S \in RangeYields(reapSeen, conns[reapA]) :
             /\ closeCh' = FireClose(ReapIdleConns(reapA, S))
             /\ demuxPc' = "reapNext"
       \/ /\ reapSeen # conns[reapA]
          /\ demuxPc' = "fatal"
          /\ UNCHANGED closeCh
    /\ reapSeen' = {}
    /\ UNCHANGED <<pumpVars, finLog, proxyVars, readyToFinalizeCh, closedCh, readerVars, demuxPkt,
                   demuxDest, wgDone, reapTodo, reapA, reapN, destVars, accVars,
                   connVars, fanVars, userPc, now>>

\* delete(p.tcpConnTrack, a), under tcpConnTrackMx
ReapDelete ==
    /\ demuxPc = "reapDelete"
    /\ tcpConnTrack' = [tcpConnTrack EXCEPT ![dAddr[reapA]] = Nil]
    /\ demuxPc' = "reapClose"
    /\ UNCHANGED <<pumpVars, finLog, acceptedPackets, rejectedPackets, pktIn, udpConns, closeVars,
                   readerVars, demuxPkt, demuxDest, wgDone, reapVars, destVars,
                   accVars, connVars, fanVars, userPc, now>>

\* dest.Close(): fire closeCh, then block until closedCh
ReapClose ==
    /\ demuxPc = "reapClose"
    /\ closeCh' = FireClose({D(reapA)})
    /\ demuxPc' = "reapCloseWait"
    /\ UNCHANGED <<pumpVars, finLog, proxyVars, readyToFinalizeCh, closedCh, readerVars, demuxPkt,
                   demuxDest, wgDone, reapVars, destVars, accVars, connVars,
                   fanVars, userPc, now>>

\* dest.Close() would return once closedCh fires. Nothing fires the
\* tcpDest's readyToFinalizeCh while the demux task is inside reapTCP
\* (ReapCloseNeverReturns below), so the step is no part of Next.
ReapCloseReturn ==
    /\ demuxPc = "reapCloseWait"
    /\ closedCh[D(reapA)]
    /\ demuxPc' = "reapNext"
    /\ UNCHANGED <<pumpVars, finLog, proxyVars, closeVars, readerVars, demuxPkt, demuxDest, wgDone,
                   reapVars, destVars, accVars, connVars, fanVars, userPc, now>>

ReapCloseNeverReturns ==
    demuxPc = "reapCloseWait" => ~closedCh[D(reapA)] /\ ~readyToFinalizeCh[D(reapA)]

----------------------------------------------------------------------------
\* The deferred calls of copyToUpstream, last registered first

\* closeUDP: every UDP flow of the map is closed
CloseUDP(m) == [f \in Flows |-> IF m[f] = "open" THEN "closed" ELSE m[f]]

DemuxCloseUDP ==
    /\ demuxPc = "closeUDP"
    /\ udpConns' = CloseUDP(udpConns)
    /\ demuxPc' = "closeTCP"
    /\ UNCHANGED <<pumpVars, finLog, acceptedPackets, rejectedPackets, pktIn, tcpConnTrack, closeVars,
                   readerVars, demuxPkt, demuxDest, wgDone, reapVars, destVars,
                   accVars, connVars, fanVars, userPc, now>>

\* The destinations of the map and the connections of their conns maps
TrackedDests == {tcpConnTrack[a] : a \in {b \in Dsts : tcpConnTrack[b] # Nil}}
TrackedObjs ==
    {D(id) : id \in TrackedDests}
        \cup {C(k[1], k[2]) : k \in {q \in ConnKeys : q[1] \in TrackedDests /\ q[2] \in conns[q[1]]}}

\* closeTCP: every destination of the map and every connection of its conns
\* map is closed on the crash path (closeNow) ...
DemuxCloseTCP ==
    /\ demuxPc = "closeTCP"
    /\ closeCh' = FireClose(TrackedObjs)
    /\ readyToFinalizeCh' = FireReady(TrackedObjs)
    /\ reapTodo' = TrackedObjs
    /\ demuxPc' = "closeTCPWait"
    /\ UNCHANGED <<pumpVars, finLog, proxyVars, closedCh, readerVars, demuxPkt, demuxDest, wgDone,
                   reapA, reapN, reapSeen, destVars, accVars, connVars, fanVars, userPc, now>>

\* ... and closeTCP returns when each of them is closed, the map emptied
DemuxCloseTCPDone ==
    /\ demuxPc = "closeTCPWait"
    /\ \A o \in reapTodo : closedCh[o]
    /\ tcpConnTrack' = [a \in Dsts |-> Nil]
    /\ reapTodo' = {}
    /\ demuxPc' = "closeNow"
    /\ UNCHANGED <<pumpVars, finLog, acceptedPackets, rejectedPackets, pktIn, udpConns, closeVars,
                   readerVars, demuxPkt, demuxDest, wgDone, reapA, reapN, reapSeen, destVars,
                   accVars, connVars, fanVars, userPc, now>>

\* icmpStack.Close(), then p.closeNow()
DemuxCloseNow ==
    /\ demuxPc = "closeNow"
    /\ closeCh' = FireClose({P})
    /\ readyToFinalizeCh' = FireReady({P})
    /\ demuxPc' = "closing"
    /\ UNCHANGED <<pumpVars, finLog, proxyVars, closedCh, readerVars, demuxPkt, demuxDest, wgDone,
                   reapVars, destVars, accVars, connVars, fanVars, userPc, now>>

\* p.closeNow() returns; wg.Done()
DemuxWgDone ==
    /\ demuxPc = "closing"
    /\ closedCh[P]
    /\ wgDone' = TRUE
    /\ demuxPc' = "exited"
    /\ UNCHANGED <<pumpVars, finLog, proxyVars, closeVars, readerVars, demuxPkt, demuxDest, reapVars,
                   destVars, accVars, connVars, fanVars, userPc, now>>

----------------------------------------------------------------------------
\* The ICMP drainer of stackForICMP and the fan-in, copyFromUpstream

\* case pktInfo := <-channelEndpoint.C
DrainRecv ==
    /\ drainPc = "recv"
    /\ icmpC # <<>>
    /\ drainPkt' = Head(icmpC)
    /\ icmpC' = Tail(icmpC)
    /\ drainPc' = "send"
    /\ UNCHANGED <<pumpVars, finLog, proxyVars, closeVars, readerVars, demuxVars, reapVars, destVars,
                   accVars, connVars, outSeq, fanPc, fanPkt, taken, written, fanErr,
                   lateTake, userPc, now>>

\* case <-p.closedCh: return, in either select
DrainExit ==
    /\ drainPc \in {"recv", "send"}
    /\ closedCh[P]
    /\ drainPc' = "exited"
    /\ UNCHANGED <<pumpVars, finLog, proxyVars, closeVars, readerVars, demuxVars, reapVars, destVars,
                   accVars, connVars, icmpC, outSeq, drainPkt, fanPc, fanPkt, taken,
                   written, fanErr, lateTake, userPc, now>>

\* The signal whose firing makes copyFromUpstream return
FanInStopsOnCloseRequest == closeCh[P]

FanInStopSignal == closedCh[P]

\* case pktInfo := <-p.toDownstream: the unbuffered channel hands the packet
\* of a sender blocked in p.toDownstream <- pktInfo to the fan-in
FanInRecv ==
    /\ fanPc = "select"
    /\ drainPc = "send"
    /\ fanPkt' = drainPkt
    /\ taken' = Append(taken, drainPkt)
    /\ drainPkt' = 0
    /\ drainPc' = "recv"
    /\ fanPc' = "write"
    /\ lateTake' = (lateTake \/ closeCh[P])
    /\ UNCHANGED <<pumpVars, finLog, proxyVars, closeVars, readerVars, demuxVars, reapVars, destVars,
                   accVars, connVars, icmpC, outSeq, written, fanErr,
                   userPc, now>>

\* p.downstream.Write(pkt); an error ends the loop
FanInWrite ==
    /\ fanPc = "write"
    /\ written' = Append(written, fanPkt)
    /\ fanPkt' = 0
    /\ \/ fanPc' = "select" /\ UNCHANGED fanErr
       \/ fanPc' = "close" /\ fanErr' = TRUE
    /\ UNCHANGED <<pumpVars, finLog, proxyVars, closeVars, readerVars, demuxVars, reapVars, destVars,
                   accVars, connVars, icmpC, outSeq, drainPc, drainPkt,
                   taken, lateTake, userPc, now>>

\* case <-p.closedCh: return
FanInStop ==
    /\ fanPc = "select"
    /\ FanInStopSignal
    /\ fanPc' = "close"
    /\ UNCHANGED <<pumpVars, finLog, proxyVars, closeVars, readerVars, demuxVars, reapVars, destVars,
                   accVars, connVars, icmpC, outSeq, drainPc, drainPkt, fanPkt,
                   taken, written, fanErr, lateTake, userPc, now>>

\* defer p.Close(): fire closeCh, then block until closedCh
FanInClose ==
    /\ fanPc = "close"
    /\ closeCh' = FireClose({P})
    /\ fanPc' = "closeWait"
    /\ UNCHANGED <<pumpVars, finLog, proxyVars, readyToFinalizeCh, closedCh, readerVars, demuxVars,
                   reapVars, destVars, accVars, connVars, icmpC, outSeq, drainPc,
                   drainPkt, fanPkt, taken, written, fanErr, lateTake, userPc, now>>

FanInDone ==
    /\ fanPc = "closeWait"
    /\ closedCh[P]
    /\ fanPc' = "done"
    /\ UNCHANGED <<pumpVars, finLog, proxyVars, closeVars, readerVars, demuxVars, reapVars, destVars,
                   accVars, connVars, icmpC, outSeq, drainPc, drainPkt, fanPkt,
                   taken, written, fanErr, lateTake, userPc, now>>

----------------------------------------------------------------------------
\* Proxy.Close called from outside, and the clock

\* Close(): fire closeCh, then block until closedCh
UserClose(u) ==
    /\ userPc[u] = "idle"
    /\ closeCh' = FireClose({P})
    /\ userPc' = [userPc EXCEPT ![u] = "waiting"]
    /\ UNCHANGED <<pumpVars, finLog, proxyVars, readyToFinalizeCh, closedCh, readerVars, demuxVars,
                   reapVars, destVars, accVars, connVars, fanVars, now>>

UserCloseReturn(u) ==
    /\ userPc[u] = "waiting"
    /\ closedCh[P]
    /\ userPc' = [userPc EXCEPT ![u] = "returned"]
    /\ UNCHANGED <<pumpVars, finLog, proxyVars, closeVars, readerVars, demuxVars, reapVars, destVars,
                   accVars, connVars, fanVars, now>>

\* time.Now() advances
Tick ==
    /\ now < MaxNow
    /\ now' = now + 1
    /\ UNCHANGED <<pumpVars, finLog, proxyVars, closeVars, readerVars, demuxVars, reapVars, destVars,
                   accVars, connVars, fanVars, userPc>>

----------------------------------------------------------------------------
Reader(frames) == ReadDownstream(frames) \/ SendPktIn \/ ReaderWgWait \/ ReaderCloseNow \/ ReaderReturn

Demux ==
    \/ DemuxPacket \/ DemuxTick \/ DemuxClose
    \/ OnTCPLookup \/ StartTCPDest \/ OnTCPInsert \/ OnTCPInject
    \/ ReapSleep \/ ReapSnapshot \/ ReapNext \/ ReapCheck \/ ReapRange \/ ReapDelete \/ ReapClose
    \/ DemuxCloseUDP \/ DemuxCloseTCP \/ DemuxCloseTCPDone \/ DemuxCloseNow \/ DemuxWgDone

Acceptor(id) == Accept(id) \/ AcceptWait(id) \/ AcceptDial(id) \/ AcceptInsert(id)

Pumps(k) ==
    \/ PumpUpCopy(k) \/ PumpUpExit(k)
    \/ PumpDownCopy(k) \/ PumpDownExit(k) \/ PumpDownDone(k)

Finalizers ==
    \/ FinalizeProxy
    \/ \E id \in DestIds : FinalizeDest(id)
    \/ \E k \in ConnKeys : FinalizeConn(k)

FanIn == DrainRecv \/ DrainExit \/ FanInRecv \/ FanInWrite \/ FanInStop \/ FanInClose \/ FanInDone

Users == \E u \in Closers : UserClose(u) \/ UserCloseReturn(u)

\* The proxy with its TCP destinations. The fan-in task touches this part of
\* the state only through its deferred p.Close(), the call UserClose makes;
\* its own steps are those of FanSpec.
Next ==
    \/ Reader(Frames)
    \/ Demux
    \/ \E id \in DestIds : Acceptor(id)
    \/ \E k \in ConnKeys : Pumps(k)
    \/ Finalizers
    \/ Users
    \/ Tick

Spec == Init /\ [][Next]_vars

\* The closeable of a destination or connection by itself, under any
\* sequence of Close and closeNow calls
Owned == Objs \ {P}

CallClose(o) ==
    /\ closeCh' = FireClose({o})
    /\ UNCHANGED <<vars_but_close, readyToFinalizeCh, closedCh, finLog>>

CallCloseNow(o) ==
    /\ closeCh' = FireClose({o})
    /\ readyToFinalizeCh' = FireReady({o})
    /\ UNCHANGED <<vars_but_close, closedCh, finLog>>

RunFinalizer(o) ==
    /\ CanFinalize(o)
    /\ \E steps \in (IF o[1] = "conn" THEN {ConnFinalizer(<<"finalizer">>, TRUE, TRUE)}
                                      ELSE DestFinalizers) :
          finLog' = [finLog EXCEPT ![o] = @ \o steps]
    /\ closedCh' = FireClosed({o})
    /\ UNCHANGED <<vars_but_close, closeCh, readyToFinalizeCh>>

CloseableNext ==
    \E o \in Owned : CallClose(o) \/ CallCloseNow(o) \/ RunFinalizer(o)

CloseableSpec == Init /\ [][CloseableNext]_vars

\* The TCP side of a running proxy by itself: the carrier delivers TCP
\* packets only and nobody calls Close.
TcpFrames == {pkt \in Frames : pkt.ipProto = IPProtocolTCP}

DemuxTcp ==
    \/ DemuxPacket \/ DemuxTick
    \/ OnTCPLookup \/ StartTCPDest \/ OnTCPInsert \/ OnTCPInject
    \/ ReapSleep \/ ReapSnapshot \/ ReapNext \/ ReapCheck \/ ReapRange \/ ReapDelete \/ ReapClose

TcpNext ==
    \/ ReadDownstream(TcpFrames) \/ SendPktIn
    \/ DemuxTcp
    \/ \E id \in DestIds : Acceptor(id)
    \/ \E k \in ConnKeys : Pumps(k) \/ FinalizeConn(k)
    \/ Tick

TcpSpec == Init /\ [][TcpNext]_vars

\* Every task of the TCP side that can take a step eventually takes one: the
\* demux task, each acceptor, each finalizer; a copyToUpstream pump returns
\* once its closeCh has fired; a Close call returns once closedCh has fired.
\* The carrier and the clock are under no obligation.
TcpFairness ==
    /\ WF_vars(SendPktIn)
    /\ WF_vars(DemuxTcp)
    /\ \A id \in DestIds : WF_vars(Acceptor(id))
    /\ \A k \in ConnKeys : WF_vars(closeCh[C(k[1], k[2])] /\ PumpUpExit(k))
    /\ \A k \in ConnKeys : WF_vars(PumpDownDone(k))
    /\ \A k \in ConnKeys : WF_vars(FinalizeConn(k))

FairTcpSpec == TcpSpec /\ TcpFairness

\* The proxy's own tasks (reader, demux with the reaper, ICMP drainer, fan-in)
\* on a carrier that delivers no TCP frame, so that no tcpDest exists
NonTCPFrames == {pkt \in Frames : pkt.ipProto # IPProtocolTCP}

DemuxNoTCP ==
    \/ DemuxPacket \/ DemuxTick \/ DemuxClose
    \/ ReapSleep \/ ReapSnapshot \/ ReapNext
    \/ DemuxCloseUDP \/ DemuxCloseTCP \/ DemuxCloseTCPDone \/ DemuxCloseNow \/ DemuxWgDone

FanNext ==
    \/ Reader(NonTCPFrames)
    \/ DemuxNoTCP
    \/ FinalizeProxy
    \/ FanIn
    \/ Users

FanSpec == Init /\ [][FanNext]_vars

\* Every task that can take a step eventually takes one; the carrier
\* (ReadDownstream) and the outside callers (UserClose) are not forced
FanFairness ==
    /\ WF_vars(SendPktIn \/ ReaderWgWait \/ ReaderCloseNow \/ ReaderReturn)
    /\ WF_vars(DemuxNoTCP)
    /\ WF_vars(FinalizeProxy)
    /\ WF_vars(FanIn)
    /\ WF_vars(\E u \in Closers : UserCloseReturn(u))

FairFanSpec == FanSpec /\ FanFairness

----------------------------------------------------------------------------
\* One accepted connection, statement by statement: baseConn.copyToUpstream,
\* baseConn.copyFromUpstream, writeToDownstream and markActive

Bytes == 1..NumBytes

\* What one upstream.Read can hand to writeToDownstream: b[:n]
Buffers == UNION {[1..n -> Bytes] : n \in 0..MaxLen}

C1Conn == C(K1[1], K1[2])

pumpFrame == <<finLog, proxyVars, readerVars, demuxVars, reapVars, destVars, accVars,
               cSt, pumpUp, pumpDown, fanVars, userPc, now>>

\* b = b[n:]
AdvanceNone(b, n) == b

Advance(b, n) == SubSeq(b, n + 1, Len(b))

\* buf, _, readErr := conn.ep.Read(readAddr), and for a successful read
\* conn.upstream.Write(buf)
UpRead ==
    /\ upPc = "read"
    /\ \E r \in {"wouldBlock", "readErr", "writeErr", "ok"} :
          upPc' = CASE r = "wouldBlock" -> "wait"
                    [] r = "ok"         -> "markLoad"
                    [] OTHER            -> "exit"
    /\ UNCHANGED <<pumpFrame, closeVars, cLast, upT, dnPc, dnT, connNotify,
                   wB, wOrig, wSent, wI, wRet, sleepVars>>

\* select { case <-conn.closeCh: return; case <-conn.notifyCh: continue }
UpWait ==
    /\ upPc = "wait"
    /\ \/ /\ closeCh[C1Conn]
          /\ upPc' = "exit"
          /\ UNCHANGED connNotify
       \/ /\ connNotify
          /\ connNotify' = FALSE
          /\ upPc' = "read"
    /\ UNCHANGED <<pumpFrame, closeVars, cLast, upT, dnPc, dnT,
                   wB, wOrig, wSent, wI, wRet, sleepVars>>

\* markActive in copyToUpstream: time.Now().UnixNano() is evaluated
UpMarkLoad ==
    /\ upPc = "markLoad"
    /\ upT' = now
    /\ upPc' = "markStore"
    /\ UNCHANGED <<pumpFrame, closeVars, cLast, dnPc, dnT, connNotify,
                   wB, wOrig, wSent, wI, wRet, sleepVars>>

\* markActive in copyToUpstream: atomic.StoreInt64(&conn.lastActive, ...)
UpMarkStore ==
    /\ upPc = "markStore"
    /\ cLast' = [cLast EXCEPT ![K1] = upT]
    /\ upPc' = "check"
    /\ UNCHANGED <<pumpFrame, closeVars, upT, dnPc, dnT, connNotify,
                   wB, wOrig, wSent, wI, wRet, sleepVars>>

\* select { case <-conn.closeCh: return; default: }
UpCheck ==
    /\ upPc = "check"
    /\ upPc' = IF closeCh[C1Conn] THEN "exit" ELSE "read"
    /\ UNCHANGED <<pumpFrame, closeVars, cLast, upT, dnPc, dnT, connNotify,
                   wB, wOrig, wSent, wI, wRet, sleepVars>>

\* defer conn.closeNow()
UpExit ==
    /\ upPc = "exit"
    /\ closeCh' = FireClose({C1Conn})
    /\ readyToFinalizeCh' = FireReady({C1Conn})
    /\ upPc' = "done"
    /\ UNCHANGED <<pumpFrame, closedCh, cLast, upT, dnPc, dnT, connNotify,
                   wB, wOrig, wSent, wI, wRet, sleepVars>>

\* n, readErr := conn.upstream.Read(b), and for a successful read the entry
\* into writeToDownstream(b[:n])
DownRead ==
    /\ dnPc = "read"
    /\ \/ /\ dnPc' = "exit"
          /\ UNCHANGED <<wB, wOrig, wSent, wI, wRet, sleepVars>>
       \/ \E b \in Buffers :
             /\ wB' = b
             /\ wOrig' = b
             /\ wSent' = <<>>
             /\ wI' = 0
             /\ wRet' = "none"
             /\ wLast' = "none" /\ waitTime' = 0 /\ wTotal' = 0 /\ wSince' = 0
             /\ dnPc' = "write"
    /\ UNCHANGED <<pumpFrame, closeVars, cLast, upPc, upT, dnT, connNotify>>

\* waitTime := i * 1 * time.Millisecond, capped at maxWriteWait
WaitTimeUncapped(i) == i

WaitTime(i) == IF i > maxWriteWait THEN maxWriteWait ELSE i

\* One pass of writeToDownstream's loop: conn.ep.Write(b) answers with
\* WouldBlock (sleep, i++, retry), another error (returned) or n accepted
\* bytes (b = b[n:], return nil when nothing is left, else i++)
DownWrite ==
    /\ dnPc = "write"
    /\ \/ /\ wI < MaxI
          /\ wLast' = "wouldBlock"
          /\ waitTime' = WaitTime(wI)
          /\ wTotal' = wTotal + waitTime'
          /\ wSince' = wSince + 1
          /\ wI' = wI + 1
          /\ UNCHANGED <<wB, wSent, wRet, dnPc>>
       \/ /\ wRet' = "err"
          /\ wLast' = "err"
          /\ dnPc' = "exit"
          /\ UNCHANGED <<wB, wSent, wI, waitTime, wTotal, wSince>>
       \/ \E n \in 0..Len(wB) :
             /\ wSent' = wSent \o SubSeq(wB, 1, n)
             /\ wB' = Advance(wB, n)
             /\ wLast' = "ok"
             /\ wSince' = IF n > 0 THEN 0 ELSE wSince + 1
             /\ UNCHANGED <<waitTime, wTotal>>
             /\ IF Len(wB') = 0
                   THEN wRet' = "nil" /\ dnPc' = "markLoad" /\ wI' = wI
                   ELSE wI < MaxI /\ wI' = wI + 1 /\ UNCHANGED <<wRet, dnPc>>
    /\ UNCHANGED <<pumpFrame, closeVars, cLast, upPc, upT, dnT, connNotify, wOrig>>

\* markActive in copyFromUpstream: time.Now().UnixNano() is evaluated
DownMarkLoad ==
    /\ dnPc = "markLoad"
    /\ dnT' = now
    /\ dnPc' = "markStore"
    /\ UNCHANGED <<pumpFrame, closeVars, cLast, upPc, upT, connNotify,
                   wB, wOrig, wSent, wI, wRet, sleepVars>>

\* markActive in copyFromUpstream: atomic.StoreInt64(&conn.lastActive, ...)
DownMarkStore ==
    /\ dnPc = "markStore"
    /\ cLast' = [cLast EXCEPT ![K1] = dnT]
    /\ dnPc' = "read"
    /\ UNCHANGED <<pumpFrame, closeVars, upPc, upT, dnT, connNotify,
                   wB, wOrig, wSent, wI, wRet, sleepVars>>

\* defer conn.Close(): fires closeCh, then waits for closedCh
DownExit ==
    /\ dnPc = "exit"
    /\ closeCh' = FireClose({C1Conn})
    /\ dnPc' = "closing"
    /\ UNCHANGED <<pumpFrame, readyToFinalizeCh, closedCh, cLast, upPc, upT, dnT,
                   connNotify, wB, wOrig, wSent, wI, wRet, sleepVars>>

DownDone ==
    /\ dnPc = "closing"
    /\ closedCh[C1Conn]
    /\ dnPc' = "done"
    /\ UNCHANGED <<pumpFrame, closeVars, cLast, upPc, upT, dnT, connNotify,
                   wB, wOrig, wSent, wI, wRet, sleepVars>>

\* The stack signals the connection's wait entry: the endpoint is readable
StackNotify ==
    /\ ~connNotify
    /\ ~closedCh[C1Conn]
    /\ connNotify' = TRUE
    /\ UNCHANGED <<pumpFrame, closeVars, cLast, upPc, upT, dnPc, dnT,
                   wB, wOrig, wSent, wI, wRet, sleepVars>>

\* reapTCP found the connection idle: go conn.Close()
ReaperClosesConn ==
    /\ Idle(cLast[K1])
    /\ ~closeCh[C1Conn]
    /\ closeCh' = FireClose({C1Conn})
    /\ UNCHANGED <<pumpFrame, readyToFinalizeCh, closedCh, cLast, pumpVars>>

PumpNext ==
    \/ UpRead \/ UpWait \/ UpMarkLoad \/ UpMarkStore \/ UpCheck \/ UpExit
    \/ DownRead \/ DownWrite \/ DownMarkLoad \/ DownMarkStore \/ DownExit \/ DownDone
    \/ StackNotify \/ ReaperClosesConn \/ FinalizeConn(K1) \/ Tick

PumpSpec == InitState(TRUE) /\ [][PumpNext]_vars

----------------------------------------------------------------------------
\* Live objects

LiveDests(a) ==
    {id \in DestIds : dSt[id] = "started" /\ dAddr[id] = a /\ ~closedCh[D(id)]}
LiveConns == {k \in ConnKeys : cSt[k] = "open" /\ ~closedCh[C(k[1], k[2])]}
LiveFlows == {f \in Flows : udpConns[f] = "open"}

----------------------------------------------------------------------------
\* C1: when the demux loop takes a packet whose protocol is not TCP, UDP or
\* ICMP from pktIn, rejectedPackets grows by exactly 1, acceptedPackets and
\* both maps stay as they are, no tcpDest is allocated, and the loop is back
\* at its select.
C1_TakesUnknown ==
    /\ demuxPc = "select"
    /\ pktIn # <<>>
    /\ Head(pktIn).ipProto \notin {IPProtocolTCP, IPProtocolUDP, IPProtocolICMP}
    /\ pktIn' = Tail(pktIn)

C1_UnknownProtoRejected ==
    [][C1_TakesUnknown =>
          /\ rejectedPackets' = rejectedPackets + 1
          /\ acceptedPackets' = acceptedPackets
          /\ tcpConnTrack' = tcpConnTrack
          /\ udpConns' = udpConns
          /\ nextDest' = nextDest /\ dSt' = dSt
          /\ demuxPc' = "select"]_vars

\* An unknown-protocol packet has been through the switch and the loop is
\* at its select again
C1_Witness ==
    /\ demuxPc = "select"
    /\ demuxPkt.ipProto = UnknownProto
    /\ rejectedPackets >= 1

C3_EOFEndsServe == (readerErr = "EOF") ~> (readerPc = "done" \/ closeCh[P])

\* C4: once a Proxy.Close() call has returned, no tcpDest, no connection and
\* no UDP flow is live.
C4_NoneLiveAfterClose ==
    (\E u \in Closers : userPc[u] = "returned") =>
        /\ \A a \in Dsts : LiveDests(a) = {}
        /\ LiveConns = {}
        /\ LiveFlows = {}

\* C10: a failed DialTCP abandons that accept only: no connection is
\* installed, the connections stay as they are, and the acceptor goes on to
\* accept later flows.
C10_DialFails(id) == accPc[id] = "dial" /\ accPc'[id] # "dial" /\ cSt' = cSt

C10_DialFailureAbandonsOneAccept ==
    [][\A id \in DestIds :
          C10_DialFails(id) =>
              /\ conns' = conns
              /\ closeCh' = closeCh
              /\ accPc'[id] = "accept"]_vars

C6_CloseReturns ==
    \A u \in Closers : (userPc[u] = "waiting") ~> (userPc[u] = "returned")

\* C7: after a failed downstream write in the fan-in, with the demux task
\* gone, readDownstreamPackets (and Serve with it) eventually returns.
C7_WriteErrorEndsServe ==
    (fanErr /\ demuxPc = "exited") ~> (readerPc = "done")

\* C8: last_active of a connection never decreases, however the two pumps'
\* markActive calls (read the clock, then store) interleave.
C8_LastActiveNeverDecreases == [][cLast'[K1] >= cLast[K1]]_vars

\* C9: while writeToDownstream runs, the bytes the endpoint has accepted
\* followed by the bytes still to offer are the buffer it was called with;
\* it returns nil only when the endpoint has accepted the whole buffer; after
\* it returned an error nothing more is offered.
C9_WriteDeliversBuffer ==
    /\ [](wSent \o wB = wOrig)
    /\ [](wRet = "nil" => wSent = wOrig /\ wB = <<>>)
    /\ [][wRet' = "err" => wSent' = wSent /\ wB' = wB]_vars

C9_Witness ==
    wRet = "nil" /\ Len(wOrig) = MaxLen /\ wI >= 2 /\ wOrig[1] # wOrig[2]

\* C13: a reaper pass entered from the demux loop at a tick returns to the
\* demux select.
C13_ReaperPassReturns == (demuxPc = "reapSleep") ~> (demuxPc = "select")

\* C15: the reaper never waits for the finalizer of something it closes: it
\* is never blocked inside a Close call.
C15_ReaperNeverWaits == demuxPc # "reapCloseWait"

\* C11: a connection of a running proxy does not stay open with last_active
\* older than the idle timeout for ever: the reaper closes it.
C11_IdleConnReaped ==
    \A k \in ConnKeys :
        (cSt[k] = "open" /\ Idle(cLast[k]) /\ ~closeCh[P])
            ~> (cSt[k] # "open" \/ ~Idle(cLast[k]) \/ closeCh[P] \/ demuxPc = "fatal")

\* C12: every connection in a destination's conns map is open or closing,
\* never closed.
C12_NoClosedConnInMap ==
    \A id \in DestIds : \A r \in conns[id] : cSt[<<id, r>>] # "closed"

\* A pass of writeToDownstream's loop that got WouldBlock from the endpoint
C14_BlockedPass == dnPc = "write" /\ wI' = wI + 1 /\ wLast' = "wouldBlock"

\* C14 as stated: the sleep after a WouldBlock is min(i, maxWriteWait) ms with
\* i the number of attempts since the last write that accepted bytes.
C14_SleepSinceProgress ==
    [][C14_BlockedPass =>
          waitTime' = IF wSince > maxWriteWait THEN maxWriteWait ELSE wSince]_vars

\* C14, amended: the sleep after a WouldBlock is min(i, maxWriteWait) ms with
\* i the number of passes the call's loop has made so far, WouldBlock results
\* and accepting writes alike; each sleep is at most maxWriteWait and the sum
\* of the sleeps is at most maxWriteWait times the number of attempts.
C14_SleepByPassCount ==
    /\ [][C14_BlockedPass =>
             waitTime' = IF wI > maxWriteWait THEN maxWriteWait ELSE wI]_vars
    /\ [](waitTime <= maxWriteWait /\ wTotal <= maxWriteWait * wI)

C14_Witness ==
    /\ wLast = "wouldBlock" /\ wI > maxWriteWait + 1 /\ waitTime = maxWriteWait
    /\ wSent # <<>> /\ wSince < wI

\* C16: when the reaper deletes a destination from the map, the destination
\* has no connections and its last_active is older than the idle timeout.
C16_ReapsOnlyIdleEmptyDest ==
    [][demuxPc = "reapDelete" /\ demuxPc' = "reapClose" =>
          conns[reapA] = {} /\ Idle(dLast[reapA])]_vars

\* C17: while the reaper reads a destination's conns map, no other task
\* writes it.
C17_NoWriteDuringReaperRead ==
    [][demuxPc = "reapRange" => conns'[reapA] = conns[reapA]]_vars

\* The place of a finalizer step in the stated order
C18_Rank(step) ==
    CASE step = "stack.Close"     -> 1
      [] step = "finalizer"       -> 2
      [] step = "Drain"           -> 3
      [] step = "upstream.Close"  -> 4
      [] step = "EventUnregister" -> 5
      [] step = "ep.Close"        -> 6

C19_AcceptorExitsAfterClose ==
    \A id \in DestIds :
        (closeCh[D(id)] /\ dSt[id] = "started") ~> (accPc[id] = "exited")

\* C20: a destination that was allocated and whose setup then failed is
\* eventually closed.
C20_FailedSetupIsClosed ==
    \A id \in DestIds :
        (dSt[id] \in {"initFailed", "listenFailed"}) ~> closedCh[D(id)]

====
